---- MODULE Spec2Model ----
(***************************************************************************)
(* Model of the single-track playback session of sound_player:             *)
(* SoundPlayer (src/src/sound_player.rs) and SoundPlayerManager            *)
(* (src/src/sound_player_manager.rs), each driving its own rodio output    *)
(* stream.  The two sessions are run side by side on the same calls and    *)
(* the same file/engine outcomes (Spec).  Command::try_from                 *)
(* (src/src/command.rs) is modelled on its own (SpecParse).                *)
(*                                                                         *)
(* f32 values are modelled in tenths (3 is 0.3, 10 is 1.0) plus NaN.       *)
(***************************************************************************)
EXTENDS Integers, FiniteSets, Sequences, TLC

\* ---------------------------------------------------------------- bounds
MaxSinks == 2
MaxPosition == 1
MaxTokens == 3

\* ------------------------------------------------------------ value sets
None == 0
NaN == 9999
VolumeMin == 0
VolumeMax == 10
SpeedMin == 0
DefaultVolume == 10
DefaultSpeed == 10

SinkIds == 1..MaxSinks
Songs == {"", "a.mp3", "b.mp3"}
Positions == 0..MaxPosition
VolumeLevels == {-1, 0, 3, 10, 15, NaN}
SpeedFactors == {-20, 0, 15, NaN}

\* f32 comparisons: every ordered comparison with NaN is false
F32_le(a, b) == a # NaN /\ b # NaN /\ a <= b
\* (0.0..=1.0).contains(&volume)
RangeContains(volume) == F32_le(VolumeMin, volume) /\ F32_le(volume, VolumeMax)

\* ------------------------------------------------------ results of calls
NoValue == [bool |-> FALSE, f32 |-> 0, str |-> ""]
Ok == [kind |-> "Ok", file |-> "", position |-> 0, f32 |-> 0, value |-> NoValue]
OkBool(b) == [Ok EXCEPT !.value.bool = b]
OkF32(v) == [Ok EXCEPT !.value.f32 = v]
OkStr(s) == [Ok EXCEPT !.value.str = s]
NoSongLoaded == [Ok EXCEPT !.kind = "NoSongLoaded"]
FileOpenError(file) == [Ok EXCEPT !.kind = "FileOpenError", !.file = file]
PlayError(file) == [Ok EXCEPT !.kind = "PlayError", !.file = file]
DecodingError(file) == [Ok EXCEPT !.kind = "DecodingError", !.file = file]
SeekError(position) == [Ok EXCEPT !.kind = "SeekError", !.position = position]
InvalidVolume(volume) == [Ok EXCEPT !.kind = "InvalidVolume", !.f32 = volume]
InvalidSpeed(speed) == [Ok EXCEPT !.kind = "InvalidSpeed", !.f32 = speed]

\* -------------------------------------------- the engine (rodio) surface
\* A sink slot of the output stream's mixer; live = attached to the mixer.
DeadSink == [live |-> FALSE, paused |-> FALSE, volume |-> DefaultVolume,
             speed |-> DefaultSpeed, empty |-> TRUE, position |-> 0]
FreshSink == [live |-> TRUE, paused |-> FALSE, volume |-> DefaultVolume,
              speed |-> DefaultSpeed, empty |-> FALSE, position |-> 0]

\* rodio::OutputStreamBuilder::open_default_stream(): no sink attached.
\* attached_at_play is the number of sinks attached to the mixer at the
\* moment rodio::play was last asked to create one.
open_default_stream ==
    [sinks |-> [i \in SinkIds |-> DeadSink], attached_at_play |-> 0, requests |-> 0]

LiveSinks(stream) == {i \in SinkIds : stream.sinks[i].live}

\* requests: how many requests the session call in progress (or the last one)
\* has sent to the engine
Requested(stream) == [stream EXCEPT !.requests = @ + 1]
Sink_stop(stream, id) == Requested([stream EXCEPT !.sinks[id].empty = TRUE])
Sink_drop(stream, id) == Requested([stream EXCEPT !.sinks[id] = DeadSink])
Sink_pause(stream, id) == Requested([stream EXCEPT !.sinks[id].paused = TRUE])
Sink_play(stream, id) == Requested([stream EXCEPT !.sinks[id].paused = FALSE])
Sink_set_volume(stream, id, v) == Requested([stream EXCEPT !.sinks[id].volume = v])
Sink_set_speed(stream, id, v) == Requested([stream EXCEPT !.sinks[id].speed = v])
Sink_is_paused(stream, id) == stream.sinks[id].paused
Sink_empty(stream, id) == stream.sinks[id].empty
Sink_volume(stream, id) == stream.sinks[id].volume
\* try_seek: the engine either moves the position or reports an error
Sink_try_seek(stream, id, position, seek_ok) ==
    IF seek_ok
    THEN [stream |-> Requested([stream EXCEPT !.sinks[id].position = position]), ok |-> TRUE]
    ELSE [stream |-> Requested(stream), ok |-> FALSE]

\* File::open(sound_file): the empty path never opens
File_open(sound_file, open_ok) == open_ok /\ sound_file # ""

\* rodio::play(mixer, reader): decodes the reader and attaches a new sink to
\* the mixer; it fails with rodio::PlayError when the data does not decode
\* (decode_ok) or when rendering cannot start (play_ok)
rodio_play(stream, decode_ok, play_ok) ==
    LET asked == Requested([stream EXCEPT !.attached_at_play = Cardinality(LiveSinks(stream))])
        free == SinkIds \ LiveSinks(stream)
        id == CHOOSE i \in free : \A j \in free : i <= j
    IN IF ~decode_ok THEN [stream |-> asked, sink |-> None, error |-> "DecoderError"]
       ELSE IF play_ok /\ free # {}
       THEN [stream |-> [asked EXCEPT !.sinks[id] = FreshSink], sink |-> id, error |-> ""]
       ELSE [stream |-> asked, sink |-> None, error |-> "NoDevice"]

\* ===================================================== SoundPlayer (sound_player.rs)
SoundPlayer_new == [current_song |-> "", stream_handle |-> open_default_stream, sink |-> None]

SoundPlayer_get_sink(self) ==
    IF self.sink # None THEN [ok |-> TRUE, sink |-> self.sink]
    ELSE [ok |-> FALSE, sink |-> None]

\* self.sink = Some(new): the value previously held, if any, is dropped
SoundPlayer_set_sink(self, new) ==
    [self EXCEPT !.stream_handle = IF self.sink # None THEN Sink_drop(@, self.sink) ELSE @,
                 !.sink = new]

\* variant: the file is opened before the running sink is released, so a
\* failed open leaves the running sink in place
SoundPlayer_play_open_first(self, sound_file, open_ok, decode_ok, play_ok) ==
    IF ~File_open(sound_file, open_ok)
    THEN [self |-> self, ret |-> FileOpenError(sound_file)]
    ELSE LET s1 == IF self.sink # None
                   THEN [self EXCEPT !.stream_handle =
                                        Sink_drop(Sink_stop(@, self.sink), self.sink),
                                     !.sink = None]
                   ELSE self
             r == rodio_play(s1.stream_handle, decode_ok, play_ok)
             s2 == [s1 EXCEPT !.stream_handle = r.stream]
         IN IF r.sink = None
            THEN [self |-> s2, ret |-> PlayError(sound_file)]
            ELSE [self |-> [SoundPlayer_set_sink(s2, r.sink) EXCEPT !.current_song = sound_file],
                  ret |-> Ok]

\* variant: the new sink takes over the paused flag, volume and speed of the
\* sink it replaces
SoundPlayer_play_carry_over(self, sound_file, open_ok, decode_ok, play_ok) ==
    LET old == IF self.sink # None THEN self.stream_handle.sinks[self.sink] ELSE FreshSink
        s1 == IF self.sink # None
              THEN [self EXCEPT !.stream_handle = Sink_drop(Sink_stop(@, self.sink), self.sink),
                                !.sink = None]
              ELSE self
    IN IF ~File_open(sound_file, open_ok)
       THEN [self |-> s1, ret |-> FileOpenError(sound_file)]
       ELSE LET r == rodio_play(s1.stream_handle, decode_ok, play_ok)
                s2 == [s1 EXCEPT !.stream_handle = r.stream]
                s3 == [SoundPlayer_set_sink(s2, r.sink) EXCEPT
                          !.current_song = sound_file,
                          !.stream_handle.sinks[r.sink].paused = old.paused,
                          !.stream_handle.sinks[r.sink].volume = old.volume,
                          !.stream_handle.sinks[r.sink].speed = old.speed]
            IN IF r.sink = None
               THEN [self |-> s2, ret |-> PlayError(sound_file)]
               ELSE [self |-> s3, ret |-> Ok]

\* variant: the running sink is not stopped and released before the new one
\* is requested; it goes away only when self.sink is overwritten
SoundPlayer_play_keep_old(self, sound_file, open_ok, decode_ok, play_ok) ==
    IF ~File_open(sound_file, open_ok)
    THEN [self |-> self, ret |-> FileOpenError(sound_file)]
    ELSE LET r == rodio_play(self.stream_handle, decode_ok, play_ok)
             s2 == [self EXCEPT !.stream_handle = r.stream]
         IN IF r.sink = None
            THEN [self |-> s2, ret |-> PlayError(sound_file)]
            ELSE [self |-> [SoundPlayer_set_sink(s2, r.sink) EXCEPT !.current_song = sound_file],
                  ret |-> Ok]

SoundPlayer_play(self, sound_file, open_ok, decode_ok, play_ok) ==
    LET s1 == IF self.sink # None
              THEN [self EXCEPT !.stream_handle = Sink_drop(Sink_stop(@, self.sink), self.sink),
                                !.sink = None]
              ELSE self
    IN IF ~File_open(sound_file, open_ok)
       THEN [self |-> s1, ret |-> FileOpenError(sound_file)]
       ELSE LET r == rodio_play(s1.stream_handle, decode_ok, play_ok)
                s2 == [s1 EXCEPT !.stream_handle = r.stream]
            IN IF r.sink = None
               THEN [self |-> s2, ret |-> PlayError(sound_file)]
               ELSE [self |-> [SoundPlayer_set_sink(s2, r.sink) EXCEPT !.current_song = sound_file],
                     ret |-> Ok]

\* variant: pause toggles instead of testing is_paused first
SoundPlayer_pause_toggle(self) ==
    LET g == SoundPlayer_get_sink(self)
    IN IF ~g.ok THEN [self |-> self, ret |-> NoSongLoaded]
       ELSE [self |-> [self EXCEPT !.stream_handle =
                          IF Sink_is_paused(@, g.sink) THEN Sink_play(@, g.sink)
                          ELSE Sink_pause(@, g.sink)],
             ret |-> Ok]

SoundPlayer_pause(self) ==
    LET g == SoundPlayer_get_sink(self)
    IN IF ~g.ok THEN [self |-> self, ret |-> NoSongLoaded]
       ELSE [self |-> [self EXCEPT !.stream_handle =
                          IF ~Sink_is_paused(@, g.sink) THEN Sink_pause(@, g.sink) ELSE @],
             ret |-> Ok]

\* variant: the is_paused test of resume is inverted
SoundPlayer_resume_inverted(self) ==
    LET g == SoundPlayer_get_sink(self)
    IN IF ~g.ok THEN [self |-> self, ret |-> NoSongLoaded]
       ELSE [self |-> [self EXCEPT !.stream_handle =
                          IF ~Sink_is_paused(@, g.sink) THEN Sink_play(@, g.sink) ELSE @],
             ret |-> Ok]

SoundPlayer_resume(self) ==
    LET g == SoundPlayer_get_sink(self)
    IN IF ~g.ok THEN [self |-> self, ret |-> NoSongLoaded]
       ELSE [self |-> [self EXCEPT !.stream_handle =
                          IF Sink_is_paused(@, g.sink) THEN Sink_play(@, g.sink) ELSE @],
             ret |-> Ok]

\* variant: stop forgets to clear current_song
SoundPlayer_stop_keep_name(self) ==
    LET g == SoundPlayer_get_sink(self)
    IN IF ~g.ok THEN [self |-> self, ret |-> NoSongLoaded]
       ELSE [self |-> [self EXCEPT !.stream_handle = Sink_drop(Sink_stop(@, g.sink), g.sink),
                                   !.sink = None],
             ret |-> Ok]

SoundPlayer_stop(self) ==
    LET g == SoundPlayer_get_sink(self)
    IN IF ~g.ok THEN [self |-> self, ret |-> NoSongLoaded]
       ELSE [self |-> [self EXCEPT !.stream_handle = Sink_drop(Sink_stop(@, g.sink), g.sink),
                                   !.sink = None,
                                   !.current_song = ""],
             ret |-> Ok]

\* variant: the error carries the position the sink is at, not the requested one
SoundPlayer_seek_wrong_position(self, position, seek_ok) ==
    LET g == SoundPlayer_get_sink(self)
    IN IF ~g.ok THEN [self |-> self, ret |-> NoSongLoaded]
       ELSE LET r == Sink_try_seek(self.stream_handle, g.sink, position, seek_ok)
            IN IF ~r.ok
               THEN [self |-> [self EXCEPT !.stream_handle = r.stream],
                     ret |-> SeekError(self.stream_handle.sinks[g.sink].position)]
               ELSE [self |-> [self EXCEPT !.stream_handle = r.stream], ret |-> Ok]

SoundPlayer_seek(self, position, seek_ok) ==
    LET g == SoundPlayer_get_sink(self)
    IN IF ~g.ok THEN [self |-> self, ret |-> NoSongLoaded]
       ELSE LET r == Sink_try_seek(self.stream_handle, g.sink, position, seek_ok)
            IN IF ~r.ok
               THEN [self |-> [self EXCEPT !.stream_handle = r.stream],
                     ret |-> SeekError(position)]
               ELSE [self |-> [self EXCEPT !.stream_handle = r.stream], ret |-> Ok]

\* variant: a valid level is accepted but never handed to the sink
SoundPlayer_volume_no_set(self, volume) ==
    IF ~RangeContains(volume) THEN [self |-> self, ret |-> InvalidVolume(volume)]
    ELSE LET g == SoundPlayer_get_sink(self)
         IN IF ~g.ok THEN [self |-> self, ret |-> NoSongLoaded]
            ELSE [self |-> self, ret |-> Ok]

\* variant: the level is handed to the sink before it is validated
SoundPlayer_volume_set_first(self, volume) ==
    LET g == SoundPlayer_get_sink(self)
        s1 == IF g.ok THEN [self EXCEPT !.stream_handle = Sink_set_volume(@, g.sink, volume)]
              ELSE self
    IN IF ~RangeContains(volume) THEN [self |-> s1, ret |-> InvalidVolume(volume)]
       ELSE IF ~g.ok THEN [self |-> self, ret |-> NoSongLoaded]
       ELSE [self |-> s1, ret |-> Ok]

\* variant: the handle is looked up before the level is validated
SoundPlayer_volume_sink_first(self, volume) ==
    LET g == SoundPlayer_get_sink(self)
    IN IF ~g.ok THEN [self |-> self, ret |-> NoSongLoaded]
       ELSE IF ~RangeContains(volume) THEN [self |-> self, ret |-> InvalidVolume(volume)]
       ELSE [self |-> [self EXCEPT !.stream_handle = Sink_set_volume(@, g.sink, volume)],
             ret |-> Ok]

SoundPlayer_volume(self, volume) ==
    IF ~RangeContains(volume) THEN [self |-> self, ret |-> InvalidVolume(volume)]
    ELSE LET g == SoundPlayer_get_sink(self)
         IN IF ~g.ok THEN [self |-> self, ret |-> NoSongLoaded]
            ELSE [self |-> [self EXCEPT !.stream_handle = Sink_set_volume(@, g.sink, volume)],
                  ret |-> Ok]

\* variant: the factor is handed to the sink before it is validated
SoundPlayer_speed_set_first(self, speed) ==
    LET g == SoundPlayer_get_sink(self)
        s1 == IF g.ok THEN [self EXCEPT !.stream_handle = Sink_set_speed(@, g.sink, speed)]
              ELSE self
    IN IF F32_le(speed, SpeedMin) THEN [self |-> s1, ret |-> InvalidSpeed(speed)]
       ELSE IF ~g.ok THEN [self |-> self, ret |-> NoSongLoaded]
       ELSE [self |-> s1, ret |-> Ok]

\* variant: the handle is looked up before the factor is validated
SoundPlayer_speed_sink_first(self, speed) ==
    LET g == SoundPlayer_get_sink(self)
    IN IF ~g.ok THEN [self |-> self, ret |-> NoSongLoaded]
       ELSE IF F32_le(speed, SpeedMin) THEN [self |-> self, ret |-> InvalidSpeed(speed)]
       ELSE [self |-> [self EXCEPT !.stream_handle = Sink_set_speed(@, g.sink, speed)],
             ret |-> Ok]

SoundPlayer_speed(self, speed) ==
    IF F32_le(speed, SpeedMin) THEN [self |-> self, ret |-> InvalidSpeed(speed)]
    ELSE LET g == SoundPlayer_get_sink(self)
         IN IF ~g.ok THEN [self |-> self, ret |-> NoSongLoaded]
            ELSE [self |-> [self EXCEPT !.stream_handle = Sink_set_speed(@, g.sink, speed)],
                  ret |-> Ok]

SoundPlayer_current_song(self) == [self |-> self, ret |-> OkStr(self.current_song)]

SoundPlayer_is_paused(self) ==
    LET g == SoundPlayer_get_sink(self)
    IN IF ~g.ok THEN [self |-> self, ret |-> NoSongLoaded]
       ELSE [self |-> self, ret |-> OkBool(Sink_is_paused(self.stream_handle, g.sink))]

\* variant: is_playing does not look at empty()
SoundPlayer_is_playing_ignores_empty(self) ==
    LET g == SoundPlayer_get_sink(self)
    IN IF ~g.ok THEN [self |-> self, ret |-> NoSongLoaded]
       ELSE [self |-> self, ret |-> OkBool(~Sink_is_paused(self.stream_handle, g.sink))]

SoundPlayer_is_playing(self) ==
    LET g == SoundPlayer_get_sink(self)
    IN IF ~g.ok THEN [self |-> self, ret |-> NoSongLoaded]
       ELSE [self |-> self,
             ret |-> OkBool(~Sink_empty(self.stream_handle, g.sink)
                            /\ ~Sink_is_paused(self.stream_handle, g.sink))]

SoundPlayer_is_empty(self) ==
    LET g == SoundPlayer_get_sink(self)
    IN IF ~g.ok THEN [self |-> self, ret |-> NoSongLoaded]
       ELSE [self |-> self, ret |-> OkBool(Sink_empty(self.stream_handle, g.sink))]

\* variant: with no handle the engine default is reported instead of an error
SoundPlayer_get_volume_default(self) ==
    LET g == SoundPlayer_get_sink(self)
    IN IF ~g.ok THEN [self |-> self, ret |-> OkF32(DefaultVolume)]
       ELSE [self |-> self, ret |-> OkF32(Sink_volume(self.stream_handle, g.sink))]

SoundPlayer_get_volume(self) ==
    LET g == SoundPlayer_get_sink(self)
    IN IF ~g.ok THEN [self |-> self, ret |-> NoSongLoaded]
       ELSE [self |-> self, ret |-> OkF32(Sink_volume(self.stream_handle, g.sink))]

\* ===================================================== SoundPlayerManager (sound_player_manager.rs)
SoundPlayerManager_new == [current_song |-> "", stream_handle |-> open_default_stream, sink |-> None]

SoundPlayerManager_get_sink(self) ==
    IF self.sink # None THEN [ok |-> TRUE, sink |-> self.sink]
    ELSE [ok |-> FALSE, sink |-> None]

\* self.sink = Some(new): the value previously held, if any, is dropped
SoundPlayerManager_set_sink(self, new) ==
    [self EXCEPT !.stream_handle = IF self.sink # None THEN Sink_drop(@, self.sink) ELSE @,
                 !.sink = new]

SoundPlayerManager_play(self, sound_file, open_ok, decode_ok, play_ok) ==
    LET s1 == IF self.sink # None
              THEN [self EXCEPT !.stream_handle = Sink_drop(Sink_stop(@, self.sink), self.sink),
                                !.sink = None]
              ELSE self
    IN IF ~File_open(sound_file, open_ok)
       THEN [self |-> s1, ret |-> FileOpenError(sound_file)]
       ELSE LET r == rodio_play(s1.stream_handle, decode_ok, play_ok)
                s2 == [s1 EXCEPT !.stream_handle = r.stream]
            IN IF r.sink = None
               THEN [self |-> s2, ret |-> PlayError(sound_file)]
               ELSE [self |-> [SoundPlayerManager_set_sink(s2, r.sink) EXCEPT !.current_song = sound_file],
                     ret |-> Ok]

SoundPlayerManager_pause(self) ==
    LET g == SoundPlayerManager_get_sink(self)
    IN IF ~g.ok THEN [self |-> self, ret |-> NoSongLoaded]
       ELSE [self |-> [self EXCEPT !.stream_handle =
                          IF Sink_is_paused(@, g.sink) THEN @ ELSE Sink_pause(@, g.sink)],
             ret |-> Ok]

SoundPlayerManager_resume(self) ==
    LET g == SoundPlayerManager_get_sink(self)
    IN IF ~g.ok THEN [self |-> self, ret |-> NoSongLoaded]
       ELSE [self |-> [self EXCEPT !.stream_handle =
                          IF ~Sink_is_paused(@, g.sink) THEN @ ELSE Sink_play(@, g.sink)],
             ret |-> Ok]

SoundPlayerManager_stop(self) ==
    LET g == SoundPlayerManager_get_sink(self)
    IN IF ~g.ok THEN [self |-> self, ret |-> NoSongLoaded]
       ELSE [self |-> [self EXCEPT !.stream_handle = Sink_drop(Sink_stop(@, g.sink), g.sink),
                                   !.sink = None,
                                   !.current_song = ""],
             ret |-> Ok]

SoundPlayerManager_seek(self, position, seek_ok) ==
    LET g == SoundPlayerManager_get_sink(self)
    IN IF ~g.ok THEN [self |-> self, ret |-> NoSongLoaded]
       ELSE LET r == Sink_try_seek(self.stream_handle, g.sink, position, seek_ok)
            IN IF ~r.ok
               THEN [self |-> [self EXCEPT !.stream_handle = r.stream],
                     ret |-> SeekError(position)]
               ELSE [self |-> [self EXCEPT !.stream_handle = r.stream], ret |-> Ok]

SoundPlayerManager_volume(self, volume) ==
    IF ~RangeContains(volume) THEN [self |-> self, ret |-> InvalidVolume(volume)]
    ELSE LET g == SoundPlayerManager_get_sink(self)
         IN IF ~g.ok THEN [self |-> self, ret |-> NoSongLoaded]
            ELSE [self |-> [self EXCEPT !.stream_handle = Sink_set_volume(@, g.sink, volume)],
                  ret |-> Ok]

SoundPlayerManager_speed(self, speed) ==
    IF F32_le(speed, SpeedMin) THEN [self |-> self, ret |-> InvalidSpeed(speed)]
    ELSE LET g == SoundPlayerManager_get_sink(self)
         IN IF ~g.ok THEN [self |-> self, ret |-> NoSongLoaded]
            ELSE [self |-> [self EXCEPT !.stream_handle = Sink_set_speed(@, g.sink, speed)],
                  ret |-> Ok]

SoundPlayerManager_current_song(self) == [self |-> self, ret |-> OkStr(self.current_song)]

SoundPlayerManager_is_paused(self) ==
    LET g == SoundPlayerManager_get_sink(self)
    IN IF ~g.ok THEN [self |-> self, ret |-> NoSongLoaded]
       ELSE [self |-> self, ret |-> OkBool(Sink_is_paused(self.stream_handle, g.sink))]

SoundPlayerManager_is_playing(self) ==
    LET g == SoundPlayerManager_get_sink(self)
    IN IF ~g.ok THEN [self |-> self, ret |-> NoSongLoaded]
       ELSE [self |-> self,
             ret |-> OkBool(~Sink_empty(self.stream_handle, g.sink)
                            /\ ~Sink_is_paused(self.stream_handle, g.sink))]

SoundPlayerManager_is_empty(self) ==
    LET g == SoundPlayerManager_get_sink(self)
    IN IF ~g.ok THEN [self |-> self, ret |-> NoSongLoaded]
       ELSE [self |-> self, ret |-> OkBool(Sink_empty(self.stream_handle, g.sink))]

SoundPlayerManager_get_volume(self) ==
    LET g == SoundPlayerManager_get_sink(self)
    IN IF ~g.ok THEN [self |-> self, ret |-> NoSongLoaded]
       ELSE [self |-> self, ret |-> OkF32(Sink_volume(self.stream_handle, g.sink))]

\* ===================================================== Command (command.rs)
\* A &str is a sequence of one-character strings.
Upper == <<"A", "B", "C", "D", "E", "F", "G", "H", "I", "J", "K", "L", "M",
           "N", "O", "P", "Q", "R", "S", "T", "U", "V", "W", "X", "Y", "Z">>
Lower == <<"a", "b", "c", "d", "e", "f", "g", "h", "i", "j", "k", "l", "m",
           "n", "o", "p", "q", "r", "s", "t", "u", "v", "w", "x", "y", "z">>
Digits == <<"0", "1", "2", "3", "4", "5", "6", "7", "8", "9">>

IndexIn(seq, c) == CHOOSE i \in 1..Len(seq) : seq[i] = c
Occurs(seq, c) == \E i \in 1..Len(seq) : seq[i] = c
IsDigit(c) == Occurs(Digits, c)
DigitValue(c) == IndexIn(Digits, c) - 1
AllDigits(t) == \A i \in 1..Len(t) : IsDigit(t[i])
IsSign(c) == c \in {"+", "-"}
IsWhitespace(c) == c \in {" ", "\t"}

char_to_lowercase(c) == IF Occurs(Upper, c) THEN Lower[IndexIn(Upper, c)] ELSE c
str_to_lowercase(t) == [i \in 1..Len(t) |-> char_to_lowercase(t[i])]

\* the decimal value of a run of digits
RECURSIVE DecimalValue(_)
DecimalValue(t) ==
    IF t = <<>> THEN 0
    ELSE 10 * DecimalValue(SubSeq(t, 1, Len(t) - 1)) + DigitValue(t[Len(t)])

RECURSIVE Pow10(_)
Pow10(n) == IF n <= 0 THEN 1 ELSE 10 * Pow10(n - 1)

RECURSIVE str_trim_start(_)
str_trim_start(t) ==
    IF t # <<>> /\ IsWhitespace(t[1]) THEN str_trim_start(Tail(t)) ELSE t
RECURSIVE str_trim_end(_)
str_trim_end(t) ==
    IF t # <<>> /\ IsWhitespace(t[Len(t)]) THEN str_trim_end(SubSeq(t, 1, Len(t) - 1)) ELSE t
str_trim(t) == str_trim_end(str_trim_start(t))

\* str::split_whitespace: the maximal runs of non-whitespace characters
RECURSIVE SplitFrom(_, _, _)
SplitFrom(t, word, parts) ==
    IF t = <<>> THEN (IF word = <<>> THEN parts ELSE Append(parts, word))
    ELSE IF IsWhitespace(t[1])
    THEN SplitFrom(Tail(t), <<>>, IF word = <<>> THEN parts ELSE Append(parts, word))
    ELSE SplitFrom(Tail(t), Append(word, t[1]), parts)
str_split_whitespace(t) == SplitFrom(t, <<>>, <<>>)

\* str::parse::<u64>: an optional "+" and at least one digit, nothing else
\* (values beyond u64::MAX also fail; no token of the model is that long)
NoU64 == [ok |-> FALSE, value |-> 0]
str_parse_u64(t) ==
    LET body == IF t # <<>> /\ t[1] = "+" THEN Tail(t) ELSE t
    IN IF body # <<>> /\ AllDigits(body)
       THEN [ok |-> TRUE, value |-> DecimalValue(body)]
       ELSE NoU64

\* str::parse::<f32>:
\*   Float  ::= Sign? ( 'inf' | 'infinity' | 'nan' | Number )
\*   Number ::= ( Digit+ | Digit+ '.' Digit* | Digit* '.' Digit+ ) Exp?
\*   Exp    ::= 'e' Sign? Digit+
\* A finite value is kept as an exact decimal, mant / 10^scale, with no
\* trailing fractional zero (the rounding to 24 bits is not modelled).
F32Value(class, neg, mant, scale) == [class |-> class, neg |-> neg, mant |-> mant, scale |-> scale]
NoF32 == [ok |-> FALSE, value |-> F32Value("none", FALSE, 0, 0)]
RECURSIVE Decimal(_, _, _)
Decimal(neg, mant, scale) ==
    IF scale < 0 THEN Decimal(neg, mant * Pow10(-scale), 0)
    ELSE IF scale > 0 /\ mant % 10 = 0 THEN Decimal(neg, mant \div 10, scale - 1)
    ELSE F32Value("finite", neg, mant, scale)
FirstIndex(t, cs) ==
    IF \E i \in 1..Len(t) : t[i] \in cs
    THEN CHOOSE i \in 1..Len(t) : t[i] \in cs /\ \A j \in 1..(i - 1) : t[j] \notin cs
    ELSE 0
str_parse_f32(t) ==
    LET neg == t # <<>> /\ t[1] = "-"
        body == IF t # <<>> /\ IsSign(t[1]) THEN Tail(t) ELSE t
        low == str_to_lowercase(body)
        e == FirstIndex(low, {"e"})
        number == IF e = 0 THEN low ELSE SubSeq(low, 1, e - 1)
        exp == IF e = 0 THEN <<>> ELSE SubSeq(low, e + 1, Len(low))
        expneg == exp # <<>> /\ exp[1] = "-"
        expdigits == IF exp # <<>> /\ IsSign(exp[1]) THEN Tail(exp) ELSE exp
        dot == FirstIndex(number, {"."})
        int == IF dot = 0 THEN number ELSE SubSeq(number, 1, dot - 1)
        frac == IF dot = 0 THEN <<>> ELSE SubSeq(number, dot + 1, Len(number))
        expvalue == IF e = 0 THEN 0
                    ELSE IF expneg THEN 0 - DecimalValue(expdigits) ELSE DecimalValue(expdigits)
    IN IF low \in {<<"i", "n", "f">>, <<"i", "n", "f", "i", "n", "i", "t", "y">>}
       THEN [ok |-> TRUE, value |-> F32Value("inf", neg, 0, 0)]
       ELSE IF low = <<"n", "a", "n">>
       THEN [ok |-> TRUE, value |-> F32Value("nan", neg, 0, 0)]
       ELSE IF /\ AllDigits(int) /\ AllDigits(frac) /\ Len(int) + Len(frac) >= 1
               /\ (e # 0 => (expdigits # <<>> /\ AllDigits(expdigits)))
       THEN [ok |-> TRUE,
             value |-> Decimal(neg, DecimalValue(int \o frac), Len(frac) - expvalue)]
       ELSE NoF32

\* Result<Command, CommandParseError>
NoCommand == [ok |-> FALSE, error |-> "", command |-> "", song_name |-> <<>>,
              position |-> 0, f32 |-> NoF32.value]
Command_Play(song_name) == [NoCommand EXCEPT !.ok = TRUE, !.command = "Play", !.song_name = song_name]
Command_Stop == [NoCommand EXCEPT !.ok = TRUE, !.command = "Stop"]
Command_Pause == [NoCommand EXCEPT !.ok = TRUE, !.command = "Pause"]
Command_Resume == [NoCommand EXCEPT !.ok = TRUE, !.command = "Resume"]
Command_Seek(position) == [NoCommand EXCEPT !.ok = TRUE, !.command = "Seek", !.position = position]
Command_Volume(level) == [NoCommand EXCEPT !.ok = TRUE, !.command = "Volume", !.f32 = level]
Command_Speed(factor) == [NoCommand EXCEPT !.ok = TRUE, !.command = "Speed", !.f32 = factor]
InvalidParameters == [NoCommand EXCEPT !.error = "InvalidParameters"]
UnknownCommand == [NoCommand EXCEPT !.error = "UnknownCommand"]

\* the match on command_name.as_str(), given the name to match and the parts
Command_match(command_name, parts) ==
    IF command_name = <<"p", "l", "a", "y">>
    THEN (IF Len(parts) >= 2 THEN Command_Play(parts[2]) ELSE InvalidParameters)
    ELSE IF command_name = <<"s", "t", "o", "p">> THEN Command_Stop
    ELSE IF command_name = <<"p", "a", "u", "s", "e">> THEN Command_Pause
    ELSE IF command_name = <<"r", "e", "s", "u", "m", "e">> THEN Command_Resume
    ELSE IF command_name = <<"s", "e", "e", "k">>
    THEN (IF Len(parts) >= 2
          THEN (IF str_parse_u64(parts[2]).ok
                THEN Command_Seek(str_parse_u64(parts[2]).value)
                ELSE InvalidParameters)
          ELSE InvalidParameters)
    ELSE IF command_name = <<"v", "o", "l", "u", "m", "e">>
    THEN (IF Len(parts) >= 2
          THEN (IF str_parse_f32(parts[2]).ok
                THEN Command_Volume(str_parse_f32(parts[2]).value)
                ELSE InvalidParameters)
          ELSE InvalidParameters)
    ELSE IF command_name = <<"s", "p", "e", "e", "d">>
    THEN (IF Len(parts) >= 2
          THEN (IF str_parse_f32(parts[2]).ok
                THEN Command_Speed(str_parse_f32(parts[2]).value)
                ELSE InvalidParameters)
          ELSE InvalidParameters)
    ELSE UnknownCommand

\* variant: the name is matched as written, without to_lowercase
Command_try_from_as_written(s) ==
    LET parts == str_split_whitespace(str_trim(s))
    IN IF Len(parts) = 0 THEN UnknownCommand
       ELSE Command_match(parts[1], parts)

\* variant: stop, pause and resume reject trailing parameters
Command_try_from_strict_arity(s) ==
    LET parts == str_split_whitespace(str_trim(s))
        name == str_to_lowercase(parts[1])
    IN IF Len(parts) = 0 THEN UnknownCommand
       ELSE IF /\ name \in {<<"s", "t", "o", "p">>, <<"p", "a", "u", "s", "e">>,
                          <<"r", "e", "s", "u", "m", "e">>}
               /\ Len(parts) > 1
       THEN InvalidParameters
       ELSE Command_match(name, parts)

Command_try_from(s) ==
    LET parts == str_split_whitespace(str_trim(s))
    IN IF Len(parts) = 0 THEN UnknownCommand
       ELSE Command_match(str_to_lowercase(parts[1]), parts)

\* the requests: up to MaxTokens tokens with whitespace before, between and after
CommandNames ==
    {<<"p", "l", "a", "y">>, <<"P", "L", "A", "Y">>, <<"P", "l", "a", "y">>,
     <<"p", "L", "a", "Y">>, <<"s", "t", "o", "p">>, <<"S", "T", "O", "P">>,
     <<"p", "a", "u", "s", "e">>, <<"P", "a", "u", "s", "e">>,
     <<"r", "e", "s", "u", "m", "e">>, <<"R", "E", "S", "U", "M", "E">>,
     <<"s", "e", "e", "k">>, <<"S", "e", "e", "k">>,
     <<"v", "o", "l", "u", "m", "e">>, <<"V", "O", "L", "U", "M", "E">>,
     <<"s", "p", "e", "e", "d">>, <<"S", "P", "E", "E", "D">>,
     <<"d", "a", "n", "c", "e">>, <<"p", "l", "a", "y", "s">>}
ParameterTokens ==
    {<<"x", ".", "m", "p", "3">>, <<"X", ".", "M", "P", "3">>,
     <<"a", "b", "c">>, <<"3", "0">>, <<"+", "7">>, <<"-", "5">>,
     <<"0", ".", "3">>, <<"1", ".", "5">>, <<"-", "0", ".", "1">>,
     <<".", "5">>, <<"5", ".">>, <<"1", "e", "1">>, <<"N", "a", "N">>,
     <<"i", "n", "f">>, <<".">>, <<"s", "t", "o", "p">>}
ExtraTokens == {<<"b", ".", "m", "p", "3">>, <<"9">>}
Gaps == {<<" ">>, <<"\t", " ">>}
Margins == {<<>>, <<" ">>}
RECURSIVE Join(_, _)
Join(tokens, gap) ==
    IF Len(tokens) = 0 THEN <<>>
    ELSE IF Len(tokens) = 1 THEN tokens[1]
    ELSE tokens[1] \o gap \o Join(Tail(tokens), gap)
TokenLists ==
    {<<>>} \cup {<<name>> : name \in CommandNames}
    \cup UNION {{<<name, parameter>> \o extra :
                    name \in CommandNames, parameter \in ParameterTokens,
                    extra \in [1..(n - 2) -> ExtraTokens]} : n \in 2..MaxTokens}
Requests ==
    {lead \o Join(tokens, gap) \o trail :
        lead \in Margins, tokens \in TokenLists, gap \in Gaps, trail \in Margins}

\* ================================================================ state
\* player, manager: the two session objects; player_ret, manager_ret: what the
\* last call returned from each; call: the last call, its arguments, the
\* file/engine outcomes it met and the session state it was issued from.
VARIABLES player, manager, player_ret, manager_ret, call
\* request: the &str handed to Command::try_from; parsed: what it returned;
\* parser_pc: "idle", "received" (try_from not yet run) or "parsed"
VARIABLES request, parsed, parser_pc
session_vars == <<player, manager, player_ret, manager_ret, call>>
parser_vars == <<request, parsed, parser_pc>>
vars == <<player, manager, player_ret, manager_ret, call, request, parsed, parser_pc>>

Failed(ret) == ret.kind # "Ok"

\* Idle / Loaded / Paused of a session object
HasHandle(self) == self.sink # None
IsPaused(self) == HasHandle(self) /\ Sink_is_paused(self.stream_handle, self.sink)
StateName(self) ==
    IF ~HasHandle(self) THEN "Idle" ELSE IF IsPaused(self) THEN "Paused" ELSE "Loaded"

\* current_song, presence of the handle, paused flag, volume and speed
SessionState(self) ==
    [current_song |-> self.current_song,
     handle |-> HasHandle(self),
     paused |-> IsPaused(self),
     volume |-> IF HasHandle(self) THEN self.stream_handle.sinks[self.sink].volume ELSE DefaultVolume,
     speed |-> IF HasHandle(self) THEN self.stream_handle.sinks[self.sink].speed ELSE DefaultSpeed]

\* history carried from call to call, as it stands when the next call is issued:
\* since_failed_play: a Play has failed and no Play has succeeded since;
\* volume_set: the level of the last successful Volume since the last Play or Stop
NoVolumeSet == [set |-> FALSE, level |-> 0]
SinceFailedPlay ==
    IF call.op = "play" THEN Failed(player_ret) \/ Failed(manager_ret)
    ELSE call.since_failed_play
VolumeSet ==
    IF call.op \in {"play", "stop"} THEN NoVolumeSet
    ELSE IF call.op = "volume" /\ ~Failed(player_ret) /\ ~Failed(manager_ret)
    THEN [set |-> TRUE, level |-> call.f32]
    ELSE call.volume_set

Call(op) == [op |-> op, file |-> "", position |-> 0, f32 |-> 0,
             open_ok |-> TRUE, decode_ok |-> TRUE, play_ok |-> TRUE, seek_ok |-> TRUE,
             from |-> StateName(player), had_song |-> player.current_song,
             since_failed_play |-> SinceFailedPlay, volume_set |-> VolumeSet]

Init ==
    /\ player = SoundPlayer_new
    /\ manager = SoundPlayerManager_new
    /\ player_ret = Ok
    /\ manager_ret = Ok
    /\ call = [op |-> "new", file |-> "", position |-> 0, f32 |-> 0,
               open_ok |-> TRUE, decode_ok |-> TRUE, play_ok |-> TRUE, seek_ok |-> TRUE,
               from |-> "Idle", had_song |-> "",
               since_failed_play |-> FALSE, volume_set |-> NoVolumeSet]
    /\ request = <<>>
    /\ parsed = NoCommand
    /\ parser_pc = "idle"

\* a session object as a call finds it: no request sent to the engine yet
Entered(self) == [self EXCEPT !.stream_handle.requests = 0]

\* both sessions take the same call; p and m are the two outcomes
Apply(c, p, m) ==
    /\ call' = c
    /\ player' = p.self
    /\ player_ret' = p.ret
    /\ manager' = m.self
    /\ manager_ret' = m.ret
    /\ UNCHANGED parser_vars

PlayCall(sound_file, open_ok, decode_ok, play_ok) ==
    Apply([Call("play") EXCEPT !.file = sound_file, !.open_ok = open_ok,
                               !.decode_ok = decode_ok, !.play_ok = play_ok],
          SoundPlayer_play(Entered(player), sound_file, open_ok, decode_ok, play_ok),
          SoundPlayerManager_play(Entered(manager), sound_file, open_ok, decode_ok, play_ok))
Play == \E sound_file \in Songs, open_ok \in BOOLEAN,
           decode_ok \in BOOLEAN, play_ok \in BOOLEAN :
            PlayCall(sound_file, open_ok, decode_ok, play_ok)

Stop == Apply(Call("stop"), SoundPlayer_stop(Entered(player)),
              SoundPlayerManager_stop(Entered(manager)))

Pause == Apply(Call("pause"), SoundPlayer_pause(Entered(player)),
               SoundPlayerManager_pause(Entered(manager)))

Resume == Apply(Call("resume"), SoundPlayer_resume(Entered(player)),
                SoundPlayerManager_resume(Entered(manager)))

SeekCall(position, seek_ok) ==
    Apply([Call("seek") EXCEPT !.position = position, !.seek_ok = seek_ok],
          SoundPlayer_seek(Entered(player), position, seek_ok),
          SoundPlayerManager_seek(Entered(manager), position, seek_ok))
Seek == \E position \in Positions, seek_ok \in BOOLEAN : SeekCall(position, seek_ok)

VolumeCall(volume) ==
    Apply([Call("volume") EXCEPT !.f32 = volume],
          SoundPlayer_volume(Entered(player), volume),
          SoundPlayerManager_volume(Entered(manager), volume))
Volume == \E volume \in VolumeLevels : VolumeCall(volume)

SpeedCall(speed) ==
    Apply([Call("speed") EXCEPT !.f32 = speed],
          SoundPlayer_speed(Entered(player), speed),
          SoundPlayerManager_speed(Entered(manager), speed))
Speed == \E speed \in SpeedFactors : SpeedCall(speed)

CurrentSong == Apply(Call("current_song"), SoundPlayer_current_song(Entered(player)),
                     SoundPlayerManager_current_song(Entered(manager)))
IsPausedQuery == Apply(Call("is_paused"), SoundPlayer_is_paused(Entered(player)),
                       SoundPlayerManager_is_paused(Entered(manager)))
IsPlayingQuery == Apply(Call("is_playing"), SoundPlayer_is_playing(Entered(player)),
                        SoundPlayerManager_is_playing(Entered(manager)))
IsEmptyQuery == Apply(Call("is_empty"), SoundPlayer_is_empty(Entered(player)),
                      SoundPlayerManager_is_empty(Entered(manager)))
GetVolume == Apply(Call("get_volume"), SoundPlayer_get_volume(Entered(player)),
                   SoundPlayerManager_get_volume(Entered(manager)))

\* the engine's own thread reaches the end of the track: the sink runs empty
Sink_finish(stream, id) == [stream EXCEPT !.sinks[id].empty = TRUE]
TrackFinished ==
    /\ HasHandle(player) /\ HasHandle(manager)
    /\ ~Sink_empty(player.stream_handle, player.sink)
    /\ player' = [player EXCEPT !.stream_handle = Sink_finish(@, player.sink)]
    /\ manager' = [manager EXCEPT !.stream_handle = Sink_finish(@, manager.sink)]
    /\ UNCHANGED <<player_ret, manager_ret, call>>
    /\ UNCHANGED parser_vars

Next ==
    \/ Play
    \/ Stop
    \/ Pause
    \/ Resume
    \/ Seek
    \/ Volume
    \/ Speed
    \/ CurrentSong
    \/ IsPausedQuery
    \/ IsPlayingQuery
    \/ IsEmptyQuery
    \/ GetVolume
    \/ TrackFinished

Spec == Init /\ [][Next]_vars

\* ------------------------------------------------ the parser on its own
\* a caller hands a request to Command::try_from, takes the result, and
\* comes back with the next request
Receive ==
    /\ parser_pc = "idle"
    /\ \E r \in Requests : request' = r
    /\ parsed' = NoCommand
    /\ parser_pc' = "received"
    /\ UNCHANGED session_vars

TryFrom ==
    /\ parser_pc = "received"
    /\ parsed' = Command_try_from(request)
    /\ parser_pc' = "parsed"
    /\ UNCHANGED <<request, session_vars>>

Release ==
    /\ parser_pc = "parsed"
    /\ request' = <<>>
    /\ parsed' = NoCommand
    /\ parser_pc' = "idle"
    /\ UNCHANGED session_vars

NextParse ==
    \/ Receive
    \/ TryFrom
    \/ Release

SpecParse == Init /\ [][NextParse]_vars

TypeOK ==
    /\ player.current_song \in Songs /\ manager.current_song \in Songs
    /\ player.sink \in {None} \cup SinkIds /\ manager.sink \in {None} \cup SinkIds

\* =============================================================== claims

\* C1: in every reachable state, current_song is non-empty if and only if a
\* rendering handle (sink) is present.
C1_SongIffHandle ==
    /\ (player.current_song # "") <=> HasHandle(player)
    /\ (manager.current_song # "") <=> HasHandle(manager)

\* C2: a Play that fails, from Idle, Loaded or Paused, leaves the session
\* with no handle and an empty current_song.
C2_FailedPlayResets ==
    call.op = "play" =>
        /\ Failed(player_ret) => (~HasHandle(player) /\ player.current_song = "")
        /\ Failed(manager_ret) => (~HasHandle(manager) /\ manager.current_song = "")

\* C3: at most one rendering handle is live at any time; the old handle is
\* released before the engine is asked for the new one (no sink is attached
\* when rodio::play is called), and after a successful Play exactly one
\* handle exists and current_song is the requested file.
C3_For(self, ret) ==
    /\ Cardinality(LiveSinks(self.stream_handle)) <= 1
    /\ self.stream_handle.attached_at_play = 0
    /\ LiveSinks(self.stream_handle) = (IF HasHandle(self) THEN {self.sink} ELSE {})
    /\ (call.op = "play" /\ ~Failed(ret)) =>
          /\ Cardinality(LiveSinks(self.stream_handle)) = 1
          /\ self.current_song = call.file
C3_OneHandle == C3_For(player, player_ret) /\ C3_For(manager, manager_ret)

C3_Witness ==
    /\ call.op = "play" /\ call.from # "Idle"
    /\ call.had_song = "a.mp3" /\ call.file = "b.mp3"
    /\ ~Failed(player_ret) /\ ~Failed(manager_ret)
    /\ player.current_song = "b.mp3" /\ manager.current_song = "b.mp3"
    /\ Cardinality(LiveSinks(player.stream_handle)) = 1
    /\ Cardinality(LiveSinks(manager.stream_handle)) = 1

\* C4: every operation other than Play that returns an error leaves
\* current_song, the presence of the handle, the paused flag, the volume and
\* the speed exactly as they were before the call.
NonPlayCall ==
    \/ Stop \/ Pause \/ Resume \/ Seek \/ Volume \/ Speed
    \/ CurrentSong \/ IsPausedQuery \/ IsPlayingQuery \/ IsEmptyQuery \/ GetVolume
C4_Step ==
    NonPlayCall =>
        /\ Failed(player_ret') => SessionState(player') = SessionState(player)
        /\ Failed(manager_ret') => SessionState(manager') = SessionState(manager)
C4_FailureKeepsState == [][C4_Step]_vars

C4_Witness ==
    /\ call.op = "speed" /\ call.from = "Paused"
    /\ player_ret.kind = "InvalidSpeed" /\ manager_ret.kind = "InvalidSpeed"
    /\ SessionState(player).volume = 3 /\ SessionState(player).paused
    /\ SessionState(player).speed = 15 /\ player.current_song = "a.mp3"

\* C5: Stop fails with NoSongLoaded when no handle is present; otherwise it
\* succeeds, releases the handle, clears current_song and leaves Idle.
StopPost(before, after, ret) ==
    IF ~HasHandle(before)
    THEN ret = NoSongLoaded /\ after = Entered(before)
    ELSE /\ ret = Ok
         /\ ~HasHandle(after)
         /\ LiveSinks(after.stream_handle) = {}
         /\ after.current_song = ""
         /\ StateName(after) = "Idle"
C5_Step == Stop => StopPost(player, player', player_ret') /\ StopPost(manager, manager', manager_ret')
C5_Stop == [][C5_Step]_vars

C5_Witness ==
    /\ call.op = "stop" /\ call.from = "Paused" /\ call.had_song = "b.mp3"
    /\ player_ret = Ok /\ manager_ret = Ok
    /\ StateName(player) = "Idle" /\ player.current_song = ""
    /\ StateName(manager) = "Idle" /\ manager.current_song = ""

\* C6: with a handle present Pause always succeeds and ends Paused, Resume
\* always succeeds and ends Loaded (so each is idempotent); from Idle both
\* fail with NoSongLoaded; neither changes current_song or the handle.
PauseResumePost(before, after, ret, target) ==
    IF ~HasHandle(before)
    THEN ret = NoSongLoaded /\ after = Entered(before)
    ELSE /\ ret = Ok
         /\ StateName(after) = target
         /\ after.current_song = before.current_song
         /\ after.sink = before.sink
         /\ LiveSinks(after.stream_handle) = LiveSinks(before.stream_handle)
C6_Step ==
    /\ Pause => /\ PauseResumePost(player, player', player_ret', "Paused")
                /\ PauseResumePost(manager, manager', manager_ret', "Paused")
    /\ Resume => /\ PauseResumePost(player, player', player_ret', "Loaded")
                 /\ PauseResumePost(manager, manager', manager_ret', "Loaded")
C6_PauseResumeIdempotent == [][C6_Step]_vars

C6_Witness ==
    /\ call.op = "pause" /\ call.from = "Paused"
    /\ player_ret = Ok /\ manager_ret = Ok
    /\ StateName(player) = "Paused" /\ StateName(manager) = "Paused"
    /\ player.current_song = call.had_song

\* C7: an out-of-range level returns InvalidVolume{level} in every session
\* state, Idle included; an in-range level returns NoSongLoaded in Idle and
\* otherwise sets the handle's volume.
VolumePost(before, after, ret, level) ==
    IF level = NaN \/ level < VolumeMin \/ level > VolumeMax
    THEN ret = InvalidVolume(level)
    ELSE IF ~HasHandle(before)
    THEN ret = NoSongLoaded
    ELSE ret = Ok /\ HasHandle(after) /\ SessionState(after).volume = level
C7_Step ==
    \A level \in VolumeLevels :
        VolumeCall(level) => /\ VolumePost(player, player', player_ret', level)
                             /\ VolumePost(manager, manager', manager_ret', level)
C7_VolumeValidatesFirst == [][C7_Step]_vars

C7_Witness ==
    /\ call.op = "volume" /\ call.from = "Idle" /\ call.f32 = 15
    /\ player_ret = InvalidVolume(15) /\ manager_ret = InvalidVolume(15)

\* C8: a factor <= 0 returns InvalidSpeed{factor} in every session state,
\* Idle included; a positive factor returns NoSongLoaded in Idle and
\* otherwise sets the handle's speed.
SpeedPost(before, after, ret, factor) ==
    IF factor = NaN THEN TRUE
    ELSE IF factor <= SpeedMin
    THEN ret = InvalidSpeed(factor)
    ELSE IF ~HasHandle(before)
    THEN ret = NoSongLoaded
    ELSE ret = Ok /\ HasHandle(after) /\ SessionState(after).speed = factor
C8_Step ==
    \A factor \in SpeedFactors :
        SpeedCall(factor) => /\ SpeedPost(player, player', player_ret', factor)
                             /\ SpeedPost(manager, manager', manager_ret', factor)
SeekPost(before, after, ret, position, seek_ok) ==
    IF ~HasHandle(before)
    THEN ret = NoSongLoaded
    ELSE IF ~seek_ok
    THEN /\ ret = SeekError(position)
         /\ after.sink = before.sink
         /\ SessionState(after) = SessionState(before)
    ELSE /\ ret = Ok
         /\ after.stream_handle.sinks[after.sink].position = position
C9_Step ==
    \A position \in Positions, seek_ok \in BOOLEAN :
        SeekCall(position, seek_ok) =>
            /\ SeekPost(player, player', player_ret', position, seek_ok)
            /\ SeekPost(manager, manager', manager_ret', position, seek_ok)
C9_Seek == [][C9_Step]_vars

C9_Witness ==
    /\ call.op = "seek" /\ ~call.seek_ok /\ call.position = MaxPosition
    /\ call.from = "Loaded"
    /\ player.stream_handle.sinks[player.sink].position = 0
    /\ player_ret = SeekError(MaxPosition) /\ manager_ret = SeekError(MaxPosition)

\* C10: the queries never change the session; is_playing, is_paused,
\* is_empty and get_volume return NoSongLoaded when no handle is present,
\* while current_song always returns a value.
HandleQuery == IsPausedQuery \/ IsPlayingQuery \/ IsEmptyQuery \/ GetVolume
QueryPost(before, after, ret) ==
    /\ after = Entered(before)
    /\ ~HasHandle(before) => ret = NoSongLoaded
    /\ HasHandle(before) => ret.kind = "Ok"
C10_Step ==
    /\ HandleQuery => /\ QueryPost(player, player', player_ret')
                      /\ QueryPost(manager, manager', manager_ret')
    /\ CurrentSong => /\ player' = Entered(player)
                      /\ player_ret' = OkStr(player.current_song)
                      /\ manager' = Entered(manager)
                      /\ manager_ret' = OkStr(manager.current_song)
C10_QueriesReadOnly == [][C10_Step]_vars

C10_Witness ==
    /\ call.op = "get_volume" /\ call.from = "Idle"
    /\ player_ret = NoSongLoaded /\ manager_ret = NoSongLoaded

\* ------------------------------------------------ session claims, continued
\* the calls that need a handle once their argument is valid
ValidVolume == \E level \in VolumeLevels : RangeContains(level) /\ VolumeCall(level)
ValidSpeed == \E factor \in SpeedFactors : factor # NaN /\ factor > SpeedMin /\ SpeedCall(factor)
HandleOp == Stop \/ Pause \/ Resume \/ Seek \/ ValidVolume \/ ValidSpeed \/ HandleQuery

\* C11: after a failing Play, every handle-requiring operation fails with
\* NoSongLoaded until the next successful Play.
C11_Step ==
    (HandleOp /\ call'.since_failed_play) =>
        player_ret' = NoSongLoaded /\ manager_ret' = NoSongLoaded
C11_NoSongAfterFailedPlay == [][C11_Step]_vars

C11_Witness ==
    /\ call.op = "stop" /\ call.since_failed_play
    /\ call.had_song = "a.mp3"
    /\ player_ret = NoSongLoaded /\ manager_ret = NoSongLoaded

\* C15: with a handle present, get_volume returns the level of the last
\* successful Volume since the last Play or Stop, Loaded or Paused.
C15_Step ==
    (GetVolume /\ call'.volume_set.set) =>
        /\ player_ret' = OkF32(call'.volume_set.level)
        /\ manager_ret' = OkF32(call'.volume_set.level)
C15_VolumeRoundTrip == [][C15_Step]_vars

C15_Witness ==
    /\ call.op = "get_volume" /\ call.from = "Paused"
    /\ call.volume_set = [set |-> TRUE, level |-> 3]
    /\ player_ret = OkF32(3) /\ manager_ret = OkF32(3)

\* C16: whenever volume returns InvalidVolume or speed returns InvalidSpeed,
\* no request was sent to the engine during that call.
Untouched(before, after) ==
    /\ after.stream_handle.requests = 0
    /\ after.stream_handle = Entered(before).stream_handle
C16_Step ==
    (Volume \/ Speed) =>
        /\ player_ret'.kind \in {"InvalidVolume", "InvalidSpeed"} => Untouched(player, player')
        /\ manager_ret'.kind \in {"InvalidVolume", "InvalidSpeed"} => Untouched(manager, manager')
C16_ValidationIsLocal == [][C16_Step]_vars

C16_Witness ==
    /\ call.op = "volume" /\ call.from = "Loaded" /\ call.f32 = NaN
    /\ player_ret = InvalidVolume(NaN) /\ manager_ret = InvalidVolume(NaN)
    /\ player.stream_handle.requests = 0 /\ manager.stream_handle.requests = 0

\* C17: a failing Play reports the error of the step that failed, with the
\* requested file name: FileOpenError for the open, DecodingError for the
\* decoding, PlayError for the start of rendering.
ExpectedPlayError ==
    IF ~File_open(call.file, call.open_ok) THEN FileOpenError(call.file)
    ELSE IF ~call.decode_ok THEN DecodingError(call.file)
    ELSE PlayError(call.file)
C17_ErrorKindMatchesStep ==
    call.op = "play" =>
        /\ Failed(player_ret) => player_ret = ExpectedPlayError
        /\ Failed(manager_ret) => manager_ret = ExpectedPlayError

\* C18: a successful Play(song_name) from any state ends Loaded with
\* current_song = song_name; the paused flag, volume and speed of the
\* replaced handle do not carry over, and get_volume returns the engine
\* default until Volume is called again.
PlayPost(after, ret, song_name) ==
    ~Failed(ret) =>
        /\ StateName(after) = "Loaded"
        /\ after.current_song = song_name
        /\ SessionState(after).volume = DefaultVolume
        /\ SessionState(after).speed = DefaultSpeed
C18_Step ==
    /\ \A sound_file \in Songs, open_ok \in BOOLEAN, decode_ok \in BOOLEAN, play_ok \in BOOLEAN :
          PlayCall(sound_file, open_ok, decode_ok, play_ok) =>
              /\ PlayPost(player', player_ret', sound_file)
              /\ PlayPost(manager', manager_ret', sound_file)
    /\ (GetVolume /\ HasHandle(player) /\ HasHandle(manager) /\ ~call'.volume_set.set) =>
          /\ player_ret' = OkF32(DefaultVolume)
          /\ manager_ret' = OkF32(DefaultVolume)
C18_PlayStartsFresh == [][C18_Step]_vars

C18_Witness ==
    /\ call.op = "play" /\ call.from = "Paused" /\ call.file = "b.mp3"
    /\ call.volume_set = [set |-> TRUE, level |-> 3]
    /\ ~Failed(player_ret) /\ ~Failed(manager_ret)
    /\ StateName(player) = "Loaded" /\ StateName(manager) = "Loaded"
    /\ SessionState(player).volume = DefaultVolume

\* C19: the engine finishing the track leaves the handle and current_song in
\* place; from then on is_playing is false and is_empty is true, Stop, Pause,
\* Resume, Volume and Speed still succeed; is_playing and is_paused are never
\* both true.
Drained(self) == HasHandle(self) /\ Sink_empty(self.stream_handle, self.sink)
FinishPost(before, after) ==
    /\ after.sink = before.sink /\ HasHandle(after)
    /\ after.current_song = before.current_song /\ after.current_song # ""
    /\ SessionState(after) = SessionState(before)
    /\ Drained(after)
NotBoth(playing, paused) == ~(playing.ret.value.bool /\ paused.ret.value.bool)
C19_Step ==
    /\ TrackFinished => FinishPost(player, player') /\ FinishPost(manager, manager')
    /\ (Drained(player) /\ Drained(manager)) =>
          /\ IsPlayingQuery => player_ret' = OkBool(FALSE) /\ manager_ret' = OkBool(FALSE)
          /\ IsEmptyQuery => player_ret' = OkBool(TRUE) /\ manager_ret' = OkBool(TRUE)
          /\ (Stop \/ Pause \/ Resume \/ ValidVolume \/ ValidSpeed) =>
                player_ret' = Ok /\ manager_ret' = Ok
    /\ NotBoth(SoundPlayer_is_playing(player), SoundPlayer_is_paused(player))
    /\ NotBoth(SoundPlayerManager_is_playing(manager), SoundPlayerManager_is_paused(manager))
C19_TrackEndKeepsSession == [][C19_Step]_vars

C19_Witness ==
    /\ call.op = "is_playing"
    /\ Drained(player) /\ Drained(manager)
    /\ ~IsPaused(player) /\ player.current_song = "a.mp3"
    /\ player_ret = OkBool(FALSE) /\ manager_ret = OkBool(FALSE)

\* C20: on the same calls with the same file and engine outcomes, SoundPlayer
\* and SoundPlayerManager return the same result and end with the same
\* current_song, handle presence and paused flag.
C20_Equivalent ==
    /\ player_ret = manager_ret
    /\ SessionState(player) = SessionState(manager)

C20_Witness ==
    /\ call.op = "resume" /\ call.from = "Paused"
    /\ player_ret = Ok /\ manager_ret = Ok
    /\ StateName(player) = "Loaded" /\ StateName(manager) = "Loaded"
    /\ player.current_song = "b.mp3" /\ manager.current_song = "b.mp3"

\* ------------------------------------------------------ parser claims
\* the parts of the request and its command name, for stating the claims
Parts == str_split_whitespace(request)
NameOf(parts) == str_to_lowercase(parts[1])
ParamCommands == {<<"p", "l", "a", "y">>, <<"s", "e", "e", "k">>,
                  <<"v", "o", "l", "u", "m", "e">>, <<"s", "p", "e", "e", "d">>}
BareCommands == {<<"s", "t", "o", "p">>, <<"p", "a", "u", "s", "e">>,
                 <<"r", "e", "s", "u", "m", "e">>}
\* the positions of the command name in the request, and the request with
\* the letter case of the positions in U swapped
NameSpan == LET lead == Len(request) - Len(str_trim_start(request))
            IN (lead + 1)..(lead + Len(Parts[1]))
SwapCase(c) == IF Occurs(Upper, c) THEN Lower[IndexIn(Upper, c)]
               ELSE IF Occurs(Lower, c) THEN Upper[IndexIn(Lower, c)] ELSE c
Respelled(U) == [i \in 1..Len(request) |-> IF i \in U THEN SwapCase(request[i]) ELSE request[i]]

\* C12: any two requests that differ only in the letter case of the command
\* name parse to the identical result, and the parameter is kept as written.
C12_CaseInsensitive ==
    (parser_pc = "parsed" /\ Len(Parts) >= 1) =>
        /\ \A U \in SUBSET NameSpan : Command_try_from(Respelled(U)) = parsed
        /\ (parsed.ok /\ parsed.command = "Play") => parsed.song_name = Parts[2]

C12_Witness ==
    /\ parser_pc = "parsed"
    /\ Len(Parts) = 2
    /\ Parts[1] = <<"p", "L", "a", "Y">>
    /\ parsed = Command_Play(<<"X", ".", "M", "P", "3">>)

\* C13: play, seek, volume and speed each require exactly one parameter: no
\* parameter or a failed numeric conversion yields InvalidParameters, and a
\* request with a number of parameters other than one is not accepted.
C13_ExactlyOneParameter ==
    (parser_pc = "parsed" /\ Len(Parts) >= 1 /\ NameOf(Parts) \in ParamCommands) =>
        /\ Len(Parts) = 1 => parsed = InvalidParameters
        /\ (Len(Parts) >= 2 /\ NameOf(Parts) = <<"s", "e", "e", "k">>
              /\ ~str_parse_u64(Parts[2]).ok) => parsed = InvalidParameters
        /\ (Len(Parts) >= 2 /\ NameOf(Parts) \in {<<"v", "o", "l", "u", "m", "e">>,
                                                  <<"s", "p", "e", "e", "d">>}
              /\ ~str_parse_f32(Parts[2]).ok) => parsed = InvalidParameters
        /\ Len(Parts) - 1 # 1 => ~parsed.ok

\* C14: parsing is total and classifies by name: stop, pause and resume parse
\* successfully whatever follows the name; a name outside the seven commands,
\* and an empty or whitespace-only request, yields UnknownCommand.
C14_ClassifiesByName ==
    parser_pc = "parsed" =>
        /\ parsed.ok \/ parsed \in {InvalidParameters, UnknownCommand}
        /\ Len(Parts) = 0 => parsed = UnknownCommand
        /\ Len(Parts) >= 1 =>
            /\ NameOf(Parts) = <<"s", "t", "o", "p">> => parsed = Command_Stop
            /\ NameOf(Parts) = <<"p", "a", "u", "s", "e">> => parsed = Command_Pause
            /\ NameOf(Parts) = <<"r", "e", "s", "u", "m", "e">> => parsed = Command_Resume
            /\ NameOf(Parts) \notin (ParamCommands \cup BareCommands) => parsed = UnknownCommand

C14_Witness ==
    /\ parser_pc = "parsed"
    /\ Len(Parts) = 3
    /\ Parts[1] = <<"S", "T", "O", "P">>
    /\ parsed = Command_Stop

====
